---- MODULE Spec2Model ----
(***************************************************************************)
(* Upload queue and processing simulation of the resume parser front end   *)
(* (src/app.js): file validation, the ordered upload queue, the staggered  *)
(* start timers of processAll, the progress interval of                    *)
(* simulateProcessing, the JSON and CSV export of exportResults, the       *)
(* toasts of showToast and the theme kept in localStorage.                 *)
(*                                                                         *)
(* A JavaScript string is a tuple of one-character strings.  Time is       *)
(* counted in units of 100 ms, progress in half percentage points.         *)
(***************************************************************************)
EXTENDS Integers, Sequences, FiniteSets, Bags, TLC

VARIABLES
    uploadedFiles,   \* the upload queue: a sequence of File objects
    currentSection,  \* the section shown
    timers,          \* pending setTimeout / setInterval callbacks, in firing order
    display,         \* the shared #currentProcessing element
    queueList,       \* the rendered #queueList rows and whether #uploadQueue is hidden
    toasts,          \* the toasts the last handler that ran added to #toastContainer
    nextId,          \* identity of the next File object the browser creates
    cmds,            \* number of processAll commands that found a non-empty queue
    lastOp,          \* the last user command issued, with its arguments
    commanded,       \* history: the files each processAll found in the queue
    started,         \* history: the bag of simulateProcessing calls
    completed,       \* history: the bag of 'Processing Complete' toasts
    data,            \* the record exportResults serializes
    download,        \* the last file offered for download
    toastContainer,  \* whether the page has the #toastContainer element
    loaded,          \* whether the DOMContentLoaded handler has run
    theme,           \* the theme in memory
    localStorage,    \* the entries of window.localStorage
    themeSelect,     \* the value of the #themeSelect element
    html,            \* the data-color-scheme attribute of the root element
    themeIcon,       \* the text of the icon of #themeToggle
    settingsModal    \* #settingsModal: hidden or open, and the overflow style of body

vars == <<uploadedFiles, currentSection, timers, display, queueList, toasts, nextId, cmds,
          lastOp, commanded, started, completed, data, download, toastContainer, loaded,
          theme, localStorage, themeSelect, html, themeIcon, settingsModal>>

exportVars == <<data, download>>

themeVars == <<loaded, theme, localStorage, themeSelect, html, themeIcon, settingsModal>>

(***************************************************************************)
(* Bounds of the model.                                                    *)
(***************************************************************************)
MaxBatch == 2      \* files of one drop / selection
MaxIngest == 2     \* File objects created over a behaviour of SpecIngest
MaxFiles == 3      \* File objects created over a behaviour of SpecQueue
MaxRunFiles == 2   \* File objects created over a behaviour of Spec
MaxRuns == 2       \* simulation runs scheduled over a behaviour of Spec
MaxEntries == 2    \* entries of an exported record
MaxCoreFiles == 2  \* File objects created over a behaviour of SpecCore
MaxCoreRuns == 1   \* simulation runs scheduled over a behaviour of SpecCore

(***************************************************************************)
(* Strings.                                                                *)
(***************************************************************************)
UpperChars == <<"A","B","C","D","E","F","G","H","I","J","K","L","M",
                "N","O","P","Q","R","S","T","U","V","W","X","Y","Z">>
LowerChars == <<"a","b","c","d","e","f","g","h","i","j","k","l","m",
                "n","o","p","q","r","s","t","u","v","w","x","y","z">>

\* String.prototype.toLowerCase
toLowerCase(s) ==
    [i \in DOMAIN s |->
        IF \E k \in DOMAIN UpperChars : UpperChars[k] = s[i]
        THEN LowerChars[CHOOSE k \in DOMAIN UpperChars : UpperChars[k] = s[i]]
        ELSE s[i]]

\* String.prototype.split with a one-character separator: the segments
\* between the separators, always at least one.
RECURSIVE SplitFrom(_, _, _, _)
SplitFrom(s, sep, i, cur) ==
    IF i > Len(s) THEN <<cur>>
    ELSE IF s[i] = sep THEN <<cur>> \o SplitFrom(s, sep, i + 1, <<>>)
    ELSE SplitFrom(s, sep, i + 1, Append(cur, s[i]))

split(s, sep) == SplitFrom(s, sep, 1, <<>>)

\* Array.prototype.pop: the last element
pop(a) == a[Len(a)]

(***************************************************************************)
(* File validation (the filter callback of processUploadedFiles).          *)
(***************************************************************************)
validTypes == << <<".","p","d","f">>, <<".","d","o","c","x">>, <<".","t","x","t">>,
                 <<".","r","t","f">>, <<".","o","d","t">> >>

MaxSize == 10 * 1024 * 1024

includes(a, x) == \E i \in DOMAIN a : a[i] = x

fileExt(file) == <<".">> \o toLowerCase(pop(split(file.name, ".")))

isValidType(file) == includes(validTypes, fileExt(file))

isValidSizeOffByOne(file) == file.size <= MaxSize + 1

isValidSizeStrict(file) == file.size < MaxSize

isValidSize(file) == file.size <= MaxSize

\* one showToast call: title, the file it names (ident is the identity of
\* that File object, 0 when the message names none) and the count it carries
Toast(title, name, ident, count) ==
    [title |-> title, name |-> name, ident |-> ident, count |-> count]

\* the toast the filter callback emits for a file, <<>> when it returns true
RejectToastSizeFirst(file) ==
    IF ~isValidSize(file) THEN <<Toast("File Too Large", file.name, file.id, 0)>>
    ELSE IF ~isValidType(file) THEN <<Toast("Invalid File Type", file.name, file.id, 0)>>
    ELSE <<>>

RejectToast(file) ==
    IF ~isValidType(file) THEN <<Toast("Invalid File Type", file.name, file.id, 0)>>
    ELSE IF ~isValidSize(file) THEN <<Toast("File Too Large", file.name, file.id, 0)>>
    ELSE <<>>

\* files.filter(callback): the files kept, and the toasts emitted on the way
RECURSIVE FilterFilesAbort(_)
FilterFilesAbort(files) ==
    IF files = <<>> THEN [valid |-> <<>>, toasts |-> <<>>]
    ELSE IF RejectToast(Head(files)) = <<>>
         THEN LET rest == FilterFilesAbort(Tail(files))
              IN  [valid |-> <<Head(files)>> \o rest.valid, toasts |-> rest.toasts]
         ELSE [valid |-> <<>>, toasts |-> RejectToast(Head(files))]

RECURSIVE FilterFiles(_)
FilterFiles(files) ==
    IF files = <<>> THEN [valid |-> <<>>, toasts |-> <<>>]
    ELSE LET rest == FilterFiles(Tail(files))
             t == RejectToast(Head(files))
         IN  [valid  |-> (IF t = <<>> THEN <<Head(files)>> ELSE <<>>) \o rest.valid,
              toasts |-> t \o rest.toasts]

\* showToast: const container = ...; if (!container) return;
showToast(calls) == IF toastContainer THEN calls ELSE <<>>

(***************************************************************************)
(* Inputs: file names and sizes.                                           *)
(***************************************************************************)
Names == { <<"r","1",".","p","d","f">>,
           <<"A",".","P","D","F">>,
           <<"b",".","d","o","c","x">>,
           <<"c",".","T","x","t">>,
           <<"d",".","r","t","f">>,
           <<"e",".","o","d","t">>,
           <<"f",".","h","t","m","l">>,
           <<"r","2",".","e","x","e">>,
           <<"x",".","p","d","f",".","e","x","e">>,
           <<"y",".","e","x","e",".","o","d","t">>,
           <<"p","d","f">>,
           <<"z",".">> }

Sizes == {500, MaxSize, MaxSize + 1}

\* the small set the queue and the simulator are exercised with
FewNames == { <<"r","1",".","p","d","f">>, <<"r","2",".","e","x","e">> }
FewSizes == {2000000}

\* a drop or selection of n new File objects: the browser creates them, so
\* each has an identity no earlier file has
Batches(names, sizes, n) ==
    { [i \in 1..n |-> [id |-> nextId + i - 1, name |-> f[i][1], size |-> f[i][2]]] :
        f \in [1..n -> names \X sizes] }

(***************************************************************************)
(* Constants of the program, in the units of the model.                    *)
(***************************************************************************)
Scale == 2                 \* progress units per percentage point
Full == 100 * Scale        \* progress 100
Stagger == 10              \* index * 1000 ms between the starts of processAll
TickPeriod == 2            \* setInterval(..., 200)
NavDelay == 5              \* setTimeout(showSection('dashboard'), 500)
RandomBound == 15 * Scale  \* Math.random() * 15 lies in [0, 15)

\* the values of Math.random() * 15 the model draws
Increments == {0, RandomBound - 1}

steps == <<"Extracting text...", "Analyzing structure...", "Extracting entities...",
           "Processing skills...", "Finalizing results...">>

Min(a, b) == IF a <= b THEN a ELSE b
Max(a, b) == IF a >= b THEN a ELSE b

(***************************************************************************)
(* The timer queue of the event loop.  A pending callback carries the time *)
(* left until it is due (delay) and the time it has been pending (waited); *)
(* callbacks fire in order of due time, ties in order of registration.     *)
(***************************************************************************)
Timer(kind, delay, file, cmd, pos, progress) ==
    [kind |-> kind, delay |-> delay, waited |-> 0, file |-> file, cmd |-> cmd,
     pos |-> pos, progress |-> progress]

NoFile == [id |-> 0, name |-> <<>>, size |-> 0]

\* setTimeout / setInterval: register t behind every callback due no later
setTimeout(ts, t) ==
    LET before == SelectSeq(ts, LAMBDA u : u.delay <= t.delay)
        after  == SelectSeq(ts, LAMBDA u : u.delay > t.delay)
    IN  before \o <<t>> \o after

RECURSIVE setTimeouts(_, _)
setTimeouts(ts, new) ==
    IF new = <<>> THEN ts ELSE setTimeouts(setTimeout(ts, Head(new)), Tail(new))

(***************************************************************************)
(* displayUploadQueue: re-render the queue rows, one remove button per     *)
(* row bound to the row's index; an empty queue only hides the container.  *)
(***************************************************************************)
displayUploadQueue(files, shown) ==
    IF Len(files) = 0
    THEN [hidden |-> TRUE, rows |-> shown.rows]
    ELSE [hidden |-> FALSE,
          rows |-> [i \in DOMAIN files |-> [name |-> files[i].name, index |-> i - 1]]]

(***************************************************************************)
(* processUploadedFiles(files)                                             *)
(***************************************************************************)
pushFront(queue, validFiles) == validFiles \o queue

push(queue, validFiles) == queue \o validFiles

processUploadedFilesCountAll(files) ==
    LET r == FilterFiles(files)
    IN  /\ IF Len(r.valid) > 0
           THEN /\ uploadedFiles' = push(uploadedFiles, r.valid)
                /\ queueList' = displayUploadQueue(uploadedFiles', queueList)
                /\ toasts' = showToast(r.toasts \o <<Toast("Files Added", <<>>, 0, Len(files))>>)
           ELSE /\ toasts' = showToast(r.toasts)
                /\ UNCHANGED <<uploadedFiles, queueList>>
        /\ nextId' = nextId + Len(files)
        /\ UNCHANGED <<currentSection, timers, display, cmds, started, completed>>

processUploadedFilesNeedsSink(files) ==
    LET r == FilterFiles(files)
        thrown == ~toastContainer /\ r.toasts # <<>>
    IN  /\ IF Len(r.valid) > 0 /\ ~thrown
           THEN /\ uploadedFiles' = push(uploadedFiles, r.valid)
                /\ queueList' = displayUploadQueue(uploadedFiles', queueList)
                /\ toasts' = showToast(r.toasts \o <<Toast("Files Added", <<>>, 0, Len(r.valid))>>)
           ELSE /\ toasts' = showToast(r.toasts)
                /\ UNCHANGED <<uploadedFiles, queueList>>
        /\ nextId' = nextId + Len(files)
        /\ UNCHANGED <<currentSection, timers, display, cmds, started, completed>>

processUploadedFiles(files) ==
    LET r == FilterFiles(files)
    IN  /\ IF Len(r.valid) > 0
           THEN /\ uploadedFiles' = push(uploadedFiles, r.valid)
                /\ queueList' = displayUploadQueue(uploadedFiles', queueList)
                /\ toasts' = showToast(r.toasts \o <<Toast("Files Added", <<>>, 0, Len(r.valid))>>)
           ELSE /\ toasts' = showToast(r.toasts)
                /\ UNCHANGED <<uploadedFiles, queueList>>
        /\ nextId' = nextId + Len(files)
        /\ UNCHANGED <<currentSection, timers, display, cmds, started, completed>>

(***************************************************************************)
(* removeFromQueue(index), clearQueue()                                    *)
(***************************************************************************)
\* Array.prototype.splice(start, 1): a negative start counts from the end
spliceSwapLast(a, start) ==
    LET len == Len(a)
        from == IF start < 0 THEN Max(len + start, 0) ELSE Min(start, len)
    IN  IF from >= len THEN a
        ELSE [i \in 1..(len - 1) |-> IF i = from + 1 THEN a[len] ELSE a[i]]

splice(a, start) ==
    LET len == Len(a)
        from == IF start < 0 THEN Max(len + start, 0) ELSE Min(start, len)
        deleteCount == Min(1, len - from)
    IN  SubSeq(a, 1, from) \o SubSeq(a, from + deleteCount + 1, len)

removeFromQueue(index) ==
    /\ uploadedFiles' = splice(uploadedFiles, index)
    /\ queueList' = displayUploadQueue(uploadedFiles', queueList)
    /\ toasts' = showToast(<<Toast("File Removed", <<>>, 0, 0)>>)
    /\ UNCHANGED <<currentSection, timers, display, nextId, cmds, started, completed>>

clearQueue ==
    /\ uploadedFiles' = <<>>
    /\ queueList' = displayUploadQueue(uploadedFiles', queueList)
    /\ toasts' = showToast(<<Toast("Queue Cleared", <<>>, 0, 0)>>)
    /\ UNCHANGED <<currentSection, timers, display, nextId, cmds, started, completed>>

(***************************************************************************)
(* processAll()                                                            *)
(***************************************************************************)
startDelayDouble(index) == index * 2 * Stagger

startDelayFlat(index) == Stagger

startDelay(index) == index * Stagger

\* the callbacks of uploadedFiles.forEach, in registration order
startTimersFirstOnly(files, cmd) ==
    [i \in {j \in DOMAIN files : j = 1} |->
        Timer("start", startDelay(i - 1), files[i], cmd, i - 1, 0)]

startTimers(files, cmd) ==
    [i \in DOMAIN files |-> Timer("start", startDelay(i - 1), files[i], cmd, i - 1, 0)]

processAllNavigates ==
    /\ IF Len(uploadedFiles) = 0
       THEN /\ toasts' = showToast(<<Toast("No Files", <<>>, 0, 0)>>)
            /\ timers' = setTimeout(timers, Timer("nav", NavDelay, NoFile, cmds, 0, 0))
            /\ UNCHANGED cmds
       ELSE /\ cmds' = cmds + 1
            /\ toasts' = showToast(<<Toast("Processing Started", <<>>, 0, Len(uploadedFiles))>>)
            /\ timers' = setTimeout(setTimeouts(timers, startTimers(uploadedFiles, cmds + 1)),
                                    Timer("nav", NavDelay, NoFile, cmds + 1, 0, 0))
    /\ UNCHANGED <<uploadedFiles, currentSection, display, queueList, nextId, started,
                   completed>>

processAll ==
    /\ IF Len(uploadedFiles) = 0
       THEN /\ toasts' = showToast(<<Toast("No Files", <<>>, 0, 0)>>)
            /\ UNCHANGED <<timers, cmds>>
       ELSE /\ cmds' = cmds + 1
            /\ toasts' = showToast(<<Toast("Processing Started", <<>>, 0, Len(uploadedFiles))>>)
            /\ timers' = setTimeout(setTimeouts(timers, startTimers(uploadedFiles, cmds + 1)),
                                    Timer("nav", NavDelay, NoFile, cmds + 1, 0, 0))
    /\ UNCHANGED <<uploadedFiles, currentSection, display, queueList, nextId, started,
                   completed>>

(***************************************************************************)
(* simulateProcessing(file) and the callback of its interval               *)
(***************************************************************************)
simulateProcessingAtIndex(t) ==
    LET file == IF t.pos + 1 \in DOMAIN uploadedFiles THEN uploadedFiles[t.pos + 1]
                ELSE t.file
    IN  /\ display' = [display EXCEPT !.fileName = file.name, !.status = "Processing"]
        /\ timers' = setTimeout(Tail(timers), Timer("tick", TickPeriod, file, t.cmd, t.pos, 0))
        /\ started' = started (+) SetToBag({[id |-> file.id, cmd |-> t.cmd, pos |-> t.pos,
                                                waited |-> t.waited]})
        /\ toasts' = <<>>
        /\ UNCHANGED <<uploadedFiles, currentSection, queueList, nextId, cmds, completed>>

simulateProcessing(t) ==
    /\ display' = [display EXCEPT !.fileName = t.file.name, !.status = "Processing"]
    /\ timers' = setTimeout(Tail(timers), Timer("tick", TickPeriod, t.file, t.cmd, t.pos, 0))
    /\ started' = started (+) SetToBag({[id |-> t.file.id, cmd |-> t.cmd, pos |-> t.pos,
                                            waited |-> t.waited]})
    /\ toasts' = <<>>
    /\ UNCHANGED <<uploadedFiles, currentSection, queueList, nextId, cmds, completed>>

\* progress += Math.random() * 15; if (progress >= 100) progress = 100
advanceNoClamp(progress, inc) == progress + inc

advanceAssign(progress, inc) == IF inc >= Full THEN Full ELSE inc

advance(progress, inc) ==
    IF progress + inc >= Full THEN Full ELSE progress + inc

\* the text written to .processing-details while progress < 100
detailsOfCeilStep(progress) ==
    [pct |-> (Min(progress, Full) + 1) \div Scale,
     step |-> steps[Min((progress + (Full \div Len(steps)) - 1) \div (Full \div Len(steps)),
                        Len(steps) - 1) + 1],
     eta |-> (Full - progress + 10 * Scale - 1) \div (10 * Scale)]

detailsOfFloorEta(progress) ==
    [pct |-> (Min(progress, Full) + 1) \div Scale,
     step |-> steps[Min(progress \div (Full \div Len(steps)), Len(steps) - 1) + 1],
     eta |-> (Full - progress) \div (10 * Scale)]

detailsOf(progress) ==
    [pct |-> (Min(progress, Full) + 1) \div Scale,
     step |-> steps[Min(progress \div (Full \div Len(steps)), Len(steps) - 1) + 1],
     eta |-> (Full - progress + 10 * Scale - 1) \div (10 * Scale)]

tick(t, inc) ==
    LET progress == advance(t.progress, inc)
    IN  /\ IF progress >= Full
           THEN /\ timers' = Tail(timers)             \* clearInterval(interval)
                /\ display' = [display EXCEPT !.status = "Completed",
                                              !.width = Min(progress, Full),
                                              !.details = [complete |-> TRUE]]
                /\ toasts' = showToast(<<Toast("Processing Complete", t.file.name, t.file.id, 0)>>)
                /\ completed' = completed (+) SetToBag({[id |-> t.file.id, cmd |-> t.cmd,
                                                           progress |-> progress]})
           ELSE /\ timers' = setTimeout(Tail(timers),
                                 [t EXCEPT !.delay = TickPeriod, !.waited = 0,
                                            !.progress = progress])
                /\ display' = [display EXCEPT !.width = Min(progress, Full),
                                              !.details = detailsOf(progress)]
                /\ toasts' = <<>>
                /\ UNCHANGED completed
        /\ UNCHANGED <<uploadedFiles, currentSection, queueList, nextId, cmds, started>>

\* setTimeout(() => showSection('dashboard'), 500)
navigate ==
    /\ timers' = Tail(timers)
    /\ currentSection' = "dashboard"
    /\ toasts' = <<>>
    /\ UNCHANGED <<uploadedFiles, display, queueList, nextId, cmds, started, completed>>

(***************************************************************************)
(* The event loop: the callback due first runs; time passes while none is  *)
(* due.                                                                    *)
(***************************************************************************)
Due == timers # <<>> /\ Head(timers).delay = 0

StartFires ==
    /\ Due /\ Head(timers).kind = "start"
    /\ simulateProcessing(Head(timers))
    /\ UNCHANGED <<lastOp, commanded, exportVars, themeVars, toastContainer>>

TickFires ==
    /\ Due /\ Head(timers).kind = "tick"
    /\ \E inc \in Increments : tick(Head(timers), inc)
    /\ UNCHANGED <<lastOp, commanded, exportVars, themeVars, toastContainer>>

NavFires ==
    Due /\ Head(timers).kind = "nav" /\ navigate /\ UNCHANGED <<lastOp, commanded, exportVars, themeVars, toastContainer>>

TimePasses ==
    /\ timers # <<>> /\ ~Due
    /\ timers' = [i \in DOMAIN timers |->
                    [timers[i] EXCEPT !.delay = @ - 1, !.waited = @ + 1]]
    /\ UNCHANGED <<uploadedFiles, currentSection, display, queueList, toasts, nextId, cmds,
                   lastOp, commanded, started, completed, exportVars, themeVars, toastContainer>>

(***************************************************************************)
(* User commands.  lastOp and commanded are history variables: the         *)
(* specifications record in them the arguments of the last command or the  *)
(* queue a processAll found.                                               *)
(***************************************************************************)
Op(op, index, files) == [op |-> op, index |-> index, files |-> files]

UploadFrom(names, sizes, limit) ==
    \E n \in 0..MaxBatch :
        /\ nextId + n - 1 <= limit
        /\ \E files \in Batches(names, sizes, n) :
              /\ processUploadedFiles(files)
              /\ lastOp' = Op("upload", 0, files)
        /\ UNCHANGED <<commanded, exportVars, themeVars, toastContainer>>

\* the upload queue and the simulator
Upload ==
    \E n \in 0..MaxBatch :
        /\ nextId + n - 1 <= MaxRunFiles
        /\ \E files \in Batches(FewNames, FewSizes, n) : processUploadedFiles(files)
        /\ UNCHANGED <<lastOp, commanded, exportVars, themeVars, toastContainer>>

Remove ==
    \E index \in -1..MaxRunFiles :
        removeFromQueue(index) /\ UNCHANGED <<lastOp, commanded, exportVars, themeVars, toastContainer>>

Clear == clearQueue /\ UNCHANGED <<lastOp, commanded, exportVars, themeVars, toastContainer>>

ProcessAll ==
    /\ Cardinality(commanded) + Len(uploadedFiles) <= MaxRuns
    /\ processAll
    /\ commanded' = IF Len(uploadedFiles) = 0 THEN commanded
                    ELSE commanded \cup {[id |-> uploadedFiles[i].id, cmd |-> cmds + 1,
                                          pos |-> i - 1] : i \in DOMAIN uploadedFiles}
    /\ UNCHANGED <<lastOp, exportVars, themeVars, toastContainer>>

\* ingestion alone, over the wide set of names and sizes
IngestUpload == UploadFrom(Names, Sizes, MaxIngest)

IngestClear ==
    clearQueue /\ lastOp' = Op("clear", 0, <<>>) /\ UNCHANGED <<commanded, exportVars, themeVars, toastContainer>>

\* the queue commands alone, their arguments recorded; a removal carries
\* the index of a rendered row or an index past the end of the queue
QueueUpload == UploadFrom(FewNames, FewSizes, MaxFiles)

QueueRemove ==
    \E index \in 0..MaxFiles :
        /\ removeFromQueue(index)
        /\ lastOp' = Op("remove", index, <<>>)
        /\ UNCHANGED <<commanded, exportVars, themeVars, toastContainer>>

QueueClear ==
    clearQueue /\ lastOp' = Op("clear", 0, <<>>) /\ UNCHANGED <<commanded, exportVars, themeVars, toastContainer>>

(***************************************************************************)
(* JavaScript values: strings, numbers (integers here), booleans, arrays   *)
(* and plain objects.  An object is the sequence of its own properties in  *)
(* the order Object.entries enumerates them.                               *)
(***************************************************************************)
Str(s) == [type |-> "string", value |-> s]
Num(n) == [type |-> "number", value |-> n]
Bool(b) == [type |-> "boolean", value |-> b]
Arr(a) == [type |-> "array", value |-> a]
Obj(entries) == [type |-> "object", value |-> entries]
Entry(k, v) == [key |-> k, value |-> v]

typeof(v) == IF v.type \in {"array", "object"} THEN "object" ELSE v.type

isArray(v) == v.type = "array"

DigitChars == <<"0","1","2","3","4","5","6","7","8","9">>

RECURSIVE NatToString(_)
NatToString(n) ==
    IF n < 10 THEN <<DigitChars[n + 1]>>
    ELSE NatToString(n \div 10) \o <<DigitChars[(n % 10) + 1]>>

\* Number.prototype.toString of an integer
NumberToString(n) == IF n < 0 THEN <<"-">> \o NatToString(-n) ELSE NatToString(n)

\* String(value) and Array.prototype.join: an array converts to its elements
\* joined by ",", a plain object to "[object Object]"
RECURSIVE String(_), join(_, _)
String(v) ==
    CASE v.type = "string"  -> v.value
      [] v.type = "number"  -> NumberToString(v.value)
      [] v.type = "boolean" -> IF v.value THEN <<"t","r","u","e">> ELSE <<"f","a","l","s","e">>
      [] v.type = "array"   -> join(v.value, <<",">>)
      [] v.type = "object"  -> <<"[","o","b","j","e","c","t"," ","O","b","j","e","c","t","]">>

join(a, sep) ==
    IF a = <<>> THEN <<>>
    ELSE IF Len(a) = 1 THEN String(a[1])
    ELSE String(a[1]) \o sep \o join(Tail(a), sep)

\* String.prototype.replace(/c/g, by)
RECURSIVE replace(_, _, _)
replace(s, c, by) ==
    IF s = <<>> THEN <<>>
    ELSE (IF Head(s) = c THEN by ELSE <<Head(s)>>) \o replace(Tail(s), c, by)

\* Object.entries: the properties of an object, the indexed elements of an
\* array
ObjectEntries(v) ==
    IF isArray(v) THEN [i \in DOMAIN v.value |-> Entry(NatToString(i - 1), v.value[i])]
    ELSE v.value

(***************************************************************************)
(* convertToCSV(data)                                                      *)
(***************************************************************************)
Quote == "\""

headers == <<Str(<<"F","i","e","l","d">>), Str(<<"V","a","l","u","e">>)>>

\* the rows addRows pushes for the entries of an object
RECURSIVE addRowsNoArrayCheck(_, _)
addRowsNoArrayCheck(entries, prefix) ==
    IF entries = <<>> THEN <<>>
    ELSE LET key == Head(entries).key
             value == Head(entries).value
             fieldName == IF prefix # <<>> THEN prefix \o <<".">> \o key ELSE key
             pushed ==
                 IF typeof(value) = "object"
                 THEN addRowsNoArrayCheck(ObjectEntries(value), fieldName)
                 ELSE LET cellValue == String(value)
                      IN  <<Str(<<Quote>> \o fieldName \o <<Quote, ",", Quote>>
                                \o replace(cellValue, Quote, <<Quote, Quote>>)
                                \o <<Quote>>)>>
         IN  pushed \o addRowsNoArrayCheck(Tail(entries), prefix)

RECURSIVE addRows(_, _)
addRows(entries, prefix) ==
    IF entries = <<>> THEN <<>>
    ELSE LET key == Head(entries).key
             value == Head(entries).value
             fieldName == IF prefix # <<>> THEN prefix \o <<".">> \o key ELSE key
             pushed ==
                 IF typeof(value) = "object" /\ ~isArray(value)
                 THEN addRows(ObjectEntries(value), fieldName)
                 ELSE LET cellValue == IF isArray(value)
                                       THEN join(value.value, <<";", " ">>)
                                       ELSE String(value)
                      IN  <<Str(<<Quote>> \o fieldName \o <<Quote, ",", Quote>>
                                \o replace(cellValue, Quote, <<Quote, Quote>>)
                                \o <<Quote>>)>>
         IN  pushed \o addRows(Tail(entries), prefix)

convertToCSV(d) ==
    LET rows == <<Str(join(headers, <<",">>))>> \o addRows(ObjectEntries(d), <<>>)
    IN  join(rows, <<"\n">>)

(***************************************************************************)
(* JSON.stringify(value, null, 2)                                          *)
(***************************************************************************)
\* the characters of a string as JSON writes them, without escaping
escapeNone(s) == s

\* the characters of a string as JSON writes them
RECURSIVE escape(_)
escape(s) ==
    IF s = <<>> THEN <<>>
    ELSE (CASE Head(s) = Quote -> <<"\\", Quote>>
            [] Head(s) = "\\"  -> <<"\\", "\\">>
            [] Head(s) = "\n"  -> <<"\\", "n">>
            [] OTHER           -> <<Head(s)>>) \o escape(Tail(s))

QuoteJSONString(s) == <<Quote>> \o escape(s) \o <<Quote>>

Spaces(n) == [i \in 1..n |-> " "]

gap == 2

\* SerializeJSONProperty at the given indentation; items(k) is the text of
\* the k-th element or property
RECURSIVE stringify(_, _)
stringify(v, indent) ==
    LET RECURSIVE lines(_, _)
        lines(item(_), n) ==
            IF n = 0 THEN <<>>
            ELSE lines(item, n - 1) \o (IF n > 1 THEN <<",", "\n">> ELSE <<>>)
                 \o Spaces(indent + gap) \o item(n)
        element(k) == stringify(v.value[k], indent + gap)
        property(k) == QuoteJSONString(v.value[k].key) \o <<":", " ">>
                       \o stringify(v.value[k].value, indent + gap)
    IN  CASE v.type = "string"  -> QuoteJSONString(v.value)
          [] v.type = "number"  -> NumberToString(v.value)
          [] v.type = "boolean" -> String(v)
          [] v.type = "array"   ->
                IF v.value = <<>> THEN <<"[", "]">>
                ELSE <<"[", "\n">> \o lines(element, Len(v.value)) \o <<"\n">>
                     \o Spaces(indent) \o <<"]">>
          [] v.type = "object"  ->
                IF v.value = <<>> THEN <<"{", "}">>
                ELSE <<"{", "\n">> \o lines(property, Len(v.value)) \o <<"\n">>
                     \o Spaces(indent) \o <<"}">>

JSON_stringify(v) == stringify(v, 0)

(***************************************************************************)
(* exportResults(format)                                                   *)
(***************************************************************************)
\* the value undefined; it carries an empty value field so that it compares
\* with every other value
undefined == [type |-> "undefined", value |-> <<>>]

\* no link was clicked yet
NoDownload ==
    [filename |-> undefined, mimeType |-> undefined, content |-> undefined, clicked |-> FALSE]

\* sampleData.parsedResume.parsed_data, shortened: one entry of each shape
parsed_data ==
    Obj(<<Entry(<<"p","e","r","s","o","n","a","l","_","i","n","f","o">>, Obj(<<Entry(<<"n","a","m","e">>, Str(<<"J","o","h","n"," ","S","m","i","t","h">>))>>)),
          Entry(<<"p","r","o","f","e","s","s","i","o","n","a","l","_","s","u","m","m","a","r","y">>, Str(<<"S","e","n","i","o","r"," ","E","n","g","i","n","e","e","r">>)),
          Entry(<<"w","o","r","k","_","e","x","p","e","r","i","e","n","c","e">>, Arr(<<Obj(<<Entry(<<"c","o","m","p","a","n","y">>, Str(<<"T","e","c","h"," ","C","o","r","p">>)), Entry(<<"d","u","r","a","t","i","o","n","_","m","o","n","t","h","s">>, Num(48))>>)>>)),
          Entry(<<"s","k","i","l","l","s">>, Obj(<<Entry(<<"s","o","f","t","_","s","k","i","l","l","s">>, Arr(<<Obj(<<Entry(<<"s","k","i","l","l">>, Str(<<"L","e","a","d","e","r","s","h","i","p">>))>>)>>))>>)),
          Entry(<<"p","r","o","j","e","c","t","s">>, Arr(<<Obj(<<Entry(<<"t","e","c","h","n","o","l","o","g","i","e","s">>, Arr(<<Str(<<"P","y","t","h","o","n">>), Str(<<"A","W","S">>)>>))>>)>>))>>)

resume_data_json == <<"r","e","s","u","m","e","_","d","a","t","a",".","j","s","o","n">>
resume_data_csv == <<"r","e","s","u","m","e","_","d","a","t","a",".","c","s","v">>
application_json == <<"a","p","p","l","i","c","a","t","i","o","n","/","j","s","o","n">>
text_csv == <<"t","e","x","t","/","c","s","v">>

exportResults(format) ==
    LET content == IF format = "json" THEN Str(JSON_stringify(data))
                   ELSE IF format = "csv" THEN Str(convertToCSV(data))
                   ELSE undefined
        filename == IF format = "json" THEN Str(resume_data_json)
                    ELSE IF format = "csv" THEN Str(resume_data_csv)
                    ELSE undefined
        mimeType == IF format = "json" THEN Str(application_json)
                    ELSE IF format = "csv" THEN Str(text_csv)
                    ELSE undefined
    IN  /\ download' = [filename |-> filename, mimeType |-> mimeType, content |-> content,
                         clicked |-> TRUE]                           \* link.click()
        /\ toasts' = showToast(<<Toast("Export Complete", <<>>, 0, 0)>>)
        /\ UNCHANGED <<uploadedFiles, currentSection, timers, display, queueList, nextId,
                       cmds, started, completed, data>>

(***************************************************************************)
(* The theme: setupTheme, toggleTheme, the settings dialog.  A store or an *)
(* element's attributes is a function from names to strings; an absent     *)
(* entry is a name outside its domain.                                     *)
(***************************************************************************)
themes == <<"auto", "light", "dark">>

indexOf(a, x) ==
    IF \E i \in DOMAIN a : a[i] = x
    THEN (CHOOSE i \in DOMAIN a : a[i] = x /\ \A j \in 1..(i - 1) : a[j] # x) - 1
    ELSE -1

NoEntry == [k \in {} |-> ""]

\* localStorage.getItem(key) || fallback: null and '' both give the fallback
getItemOr(key, fallback) ==
    IF key \in DOMAIN localStorage /\ localStorage[key] # ""
    THEN localStorage[key]
    ELSE fallback

setItem(key, value) ==
    [k \in DOMAIN localStorage \cup {key} |-> IF k = key THEN value ELSE localStorage[k]]

applyTheme(themeName) ==
    IF themeName = "auto" THEN NoEntry ELSE [dataColorScheme |-> themeName]

iconMap == [auto |-> "brightness_auto", light |-> "light_mode", dark |-> "dark_mode"]

\* iconMap[theme] || 'light_mode'
updateThemeIcon(name) == IF name \in DOMAIN iconMap THEN iconMap[name] ELSE "light_mode"

\* the options of #themeSelect; assigning a value no option carries leaves
\* the element without a selected option, and its value reads ''
options == {themes[i] : i \in DOMAIN themes}

updateThemeSelect(value) == IF value \in options THEN value ELSE ""

modalHidden == [hidden |-> TRUE, overflow |-> ""]

openModal == [hidden |-> FALSE, overflow |-> "hidden"]

closeModal == modalHidden

queueVars == <<uploadedFiles, currentSection, timers, display, queueList, nextId, cmds,
               lastOp, commanded, started, completed>>

setupTheme ==
    LET savedTheme == getItemOr("theme", "auto")
    IN  /\ theme' = savedTheme
        /\ html' = applyTheme(theme')
        /\ themeSelect' = updateThemeSelect(theme')
        /\ themeIcon' = updateThemeIcon(theme')
        /\ UNCHANGED <<localStorage, settingsModal, toasts>>

toggleTheme ==
    LET currentIndex == indexOf(themes, theme)
        nextIndex == (currentIndex + 1) % Len(themes)
    IN  /\ theme' = themes[nextIndex + 1]
        /\ html' = applyTheme(theme')
        /\ themeIcon' = updateThemeIcon(theme')
        /\ localStorage' = setItem("theme", theme')
        /\ UNCHANGED <<themeSelect, settingsModal, toasts>>

saveSettings ==
    /\ theme' = themeSelect
    /\ html' = applyTheme(theme')
    /\ localStorage' = setItem("theme", theme')
    /\ themeIcon' = updateThemeIcon(theme')
    /\ toasts' = showToast(<<Toast("Settings Saved", <<>>, 0, 0)>>)
    /\ settingsModal' = closeModal
    /\ UNCHANGED themeSelect

\* the state setupTheme leaves when the store holds no entry
ThemeLoaded ==
    /\ loaded = TRUE
    /\ theme = "auto"
    /\ localStorage = NoEntry
    /\ themeSelect = "auto"
    /\ html = NoEntry
    /\ themeIcon = "brightness_auto"
    /\ settingsModal = modalHidden

\* DOMContentLoaded: setupTheme runs once, before any listener can
SetupTheme ==
    /\ ~loaded
    /\ loaded' = TRUE
    /\ setupTheme
    /\ UNCHANGED <<queueVars, exportVars, toastContainer>>

ToggleTheme ==
    loaded /\ toggleTheme /\ UNCHANGED <<loaded, queueVars, exportVars, toastContainer>>

OpenSettings ==
    /\ loaded
    /\ settingsModal' = openModal
    /\ UNCHANGED <<loaded, theme, localStorage, themeSelect, html, themeIcon, toasts,
                   queueVars, exportVars, toastContainer>>

\* the user picks an option of #themeSelect
SelectTheme ==
    /\ loaded
    /\ \E value \in options : themeSelect' = value
    /\ UNCHANGED <<loaded, theme, localStorage, html, themeIcon, settingsModal, toasts,
                   queueVars, exportVars, toastContainer>>

SaveSettings ==
    loaded /\ saveSettings /\ UNCHANGED <<loaded, queueVars, exportVars, toastContainer>>

\* what the store may hold when the page loads: nothing, a theme this page
\* wrote, or a string some other writer of the origin's store left
StoredThemes == options \cup {"", "sepia"}

InitTheme ==
    /\ uploadedFiles = <<>>
    /\ currentSection = "home"
    /\ timers = <<>>
    /\ display = [fileName |-> <<>>, status |-> "", width |-> 0,
                  details |-> [complete |-> FALSE]]
    /\ queueList = [hidden |-> TRUE, rows |-> <<>>]
    /\ toasts = <<>>
    /\ nextId = 1
    /\ cmds = 0
    /\ lastOp = Op("none", 0, <<>>)
    /\ commanded = {}
    /\ started = EmptyBag
    /\ completed = EmptyBag
    /\ data = parsed_data
    /\ download = NoDownload
    /\ toastContainer = TRUE
    /\ loaded = FALSE
    /\ theme = "auto"
    /\ localStorage \in {NoEntry} \cup {[theme |-> value] : value \in StoredThemes}
    /\ themeSelect \in options
    /\ html = NoEntry
    /\ themeIcon \in {iconMap[k] : k \in DOMAIN iconMap}
    /\ settingsModal = modalHidden

NextTheme == SetupTheme \/ ToggleTheme \/ OpenSettings \/ SelectTheme \/ SaveSettings

SpecTheme == InitTheme /\ [][NextTheme]_vars

(***************************************************************************)
(* The export alone, over records of every shape: up to MaxEntries entries *)
(* under distinct keys, the keys and the values from small sets.           *)
(***************************************************************************)
Keys == { <<"a">>, <<>>, <<"k", Quote>> }

Values ==
    { Num(1), Num(-12), Str(<<"s", Quote, "\\">>), Bool(FALSE),
      Arr(<<Num(1), Num(2)>>), Arr(<<>>),
      Arr(<<Obj(<<Entry(<<"s">>, Str(<<"p">>))>>), Bool(TRUE)>>),
      Arr(<<Arr(<<Num(1), Num(2)>>), Str(<<"z", Quote>>)>>),
      Obj(<<Entry(<<"b">>, Num(1)), Entry(<<"c">>, Arr(<<Num(1), Num(2)>>))>>),
      Obj(<<>>) }

Records ==
    LET shapes == UNION { [1..n -> Keys \X Values] : n \in 0..MaxEntries }
        distinct(f) == \A i, j \in DOMAIN f : i # j => f[i][1] # f[j][1]
    IN  { Obj([i \in DOMAIN f |-> Entry(f[i][1], f[i][2])]) : f \in {g \in shapes : distinct(g)} }

Formats == {"json", "csv", "xml"}

ExportResults ==
    \E format \in Formats :
        exportResults(format) /\ UNCHANGED <<lastOp, commanded, themeVars, toastContainer>>

InitExport ==
    /\ data \in Records \cup {parsed_data}
    /\ download = NoDownload
    /\ uploadedFiles = <<>>
    /\ currentSection = "home"
    /\ timers = <<>>
    /\ display = [fileName |-> <<>>, status |-> "", width |-> 0,
                  details |-> [complete |-> FALSE]]
    /\ queueList = [hidden |-> TRUE, rows |-> <<>>]
    /\ toasts = <<>>
    /\ nextId = 1
    /\ cmds = 0
    /\ lastOp = Op("none", 0, <<>>)
    /\ commanded = {}
    /\ started = EmptyBag
    /\ completed = EmptyBag
    /\ toastContainer = TRUE
    /\ ThemeLoaded

NextExport == ExportResults

SpecExport == InitExport /\ [][NextExport]_vars

Init ==
    /\ uploadedFiles = <<>>
    /\ currentSection = "home"
    /\ timers = <<>>
    /\ display = [fileName |-> <<>>, status |-> "", width |-> 0, details |-> [complete |-> FALSE]]
    /\ queueList = [hidden |-> TRUE, rows |-> <<>>]
    /\ toasts = <<>>
    /\ nextId = 1
    /\ cmds = 0
    /\ lastOp = Op("none", 0, <<>>)
    /\ commanded = {}
    /\ started = EmptyBag
    /\ completed = EmptyBag
    /\ data = parsed_data
    /\ download = NoDownload
    /\ toastContainer = TRUE
    /\ ThemeLoaded

Next ==
    \/ Upload
    \/ Remove
    \/ Clear
    \/ ProcessAll
    \/ StartFires
    \/ TickFires
    \/ NavFires
    \/ TimePasses

Spec == Init /\ [][Next]_vars

NextIngest == IngestUpload \/ IngestClear

SpecIngest == Init /\ [][NextIngest]_vars

NextQueue == QueueUpload \/ QueueRemove \/ QueueClear

SpecQueue == Init /\ [][NextQueue]_vars

(***************************************************************************)
(* The simulator alone.  It starts from a queue of valid files, as a       *)
(* sequence of uploads ending with an empty selection leaves it, and takes *)
(* the commands that schedule or could cancel runs; uploads and single     *)
(* removals touch no timer.                                                *)
(***************************************************************************)
InitRun ==
    \E n \in 1..MaxRunFiles :
        /\ uploadedFiles = [i \in 1..n |->
                [id |-> i, name |-> <<"r","1",".","p","d","f">>, size |-> 2000000]]
        /\ queueList = displayUploadQueue(uploadedFiles, [hidden |-> TRUE, rows |-> <<>>])
        /\ nextId = n + 1
        /\ currentSection = "home"
        /\ timers = <<>>
        /\ display = [fileName |-> <<>>, status |-> "", width |-> 0,
                      details |-> [complete |-> FALSE]]
        /\ toasts = <<>>
        /\ cmds = 0
        /\ lastOp = Op("none", 0, <<>>)
        /\ commanded = {}
        /\ started = EmptyBag
        /\ completed = EmptyBag
        /\ data = parsed_data
        /\ download = NoDownload
        /\ toastContainer = TRUE
        /\ ThemeLoaded

NextRun ==
    \/ ProcessAll
    \/ Clear
    \/ StartFires
    \/ TickFires
    \/ NavFires
    \/ TimePasses

SpecRun == InitRun /\ [][NextRun]_vars

(***************************************************************************)
(* The core as a whole: the four queue commands with their arguments       *)
(* recorded and the simulator, on a page with or without #toastContainer.  *)
(***************************************************************************)
CoreSizes == {2000000, MaxSize + 1}

CoreUpload == UploadFrom(FewNames, CoreSizes, MaxCoreFiles)

CoreRemove ==
    \E index \in -1..MaxCoreFiles :
        /\ removeFromQueue(index)
        /\ lastOp' = Op("remove", index, <<>>)
        /\ UNCHANGED <<commanded, exportVars, themeVars, toastContainer>>

CoreClear ==
    /\ clearQueue
    /\ lastOp' = Op("clear", 0, <<>>)
    /\ UNCHANGED <<commanded, exportVars, themeVars, toastContainer>>

CoreProcessAll ==
    /\ Cardinality(commanded) + Len(uploadedFiles) <= MaxCoreRuns
    /\ processAll
    /\ commanded' = IF Len(uploadedFiles) = 0 THEN commanded
                    ELSE commanded \cup {[id |-> uploadedFiles[i].id, cmd |-> cmds + 1,
                                          pos |-> i - 1] : i \in DOMAIN uploadedFiles}
    /\ lastOp' = Op("processAll", 0, uploadedFiles)
    /\ UNCHANGED <<exportVars, themeVars, toastContainer>>

InitCore ==
    /\ uploadedFiles = <<>>
    /\ currentSection = "home"
    /\ timers = <<>>
    /\ display = [fileName |-> <<>>, status |-> "", width |-> 0,
                  details |-> [complete |-> FALSE]]
    /\ queueList = [hidden |-> TRUE, rows |-> <<>>]
    /\ toasts = <<>>
    /\ nextId = 1
    /\ cmds = 0
    /\ lastOp = Op("none", 0, <<>>)
    /\ commanded = {}
    /\ started = EmptyBag
    /\ completed = EmptyBag
    /\ data = parsed_data
    /\ download = NoDownload
    /\ toastContainer \in BOOLEAN
    /\ ThemeLoaded

NextCore ==
    \/ CoreUpload
    \/ CoreRemove
    \/ CoreClear
    \/ CoreProcessAll
    \/ StartFires
    \/ TickFires
    \/ NavFires
    \/ TimePasses

SpecCore == InitCore /\ [][NextCore]_vars

(***************************************************************************)
(* Fairness.  The event loop runs every callback that is due and time      *)
(* passes: weak fairness of the timer steps.  FairDrawSpec adds that       *)
(* Math.random() does not return 0 for ever: a tick that draws a positive  *)
(* increment happens infinitely often while ticks keep firing.             *)
(***************************************************************************)
TimerStep == StartFires \/ TickFires \/ NavFires \/ TimePasses

TickAdvances ==
    /\ Due /\ Head(timers).kind = "tick"
    /\ \E inc \in Increments \ {0} : tick(Head(timers), inc)
    /\ UNCHANGED <<lastOp, commanded, exportVars, themeVars, toastContainer>>

FairSpec == SpecRun /\ WF_vars(TimerStep)

FairDrawSpec == SpecRun /\ WF_vars(TimerStep) /\ SF_vars(TickAdvances)

(***************************************************************************)
(* Vocabulary of the properties.                                           *)
(***************************************************************************)
SizeLimit == 10485760

AllowedExtensions == { <<"p","d","f">>, <<"d","o","c","x">>, <<"t","x","t">>,
                       <<"r","t","f">>, <<"o","d","t">> }

DocumentedFormats == AllowedExtensions \cup { <<"h","t","m","l">> }

\* the lower-cased last dot-segment of a name: the text after its last dot,
\* the whole name when it has no dot
ExtensionOf(name) ==
    LET dots == {i \in DOMAIN name : name[i] = "."}
        last == IF dots = {} THEN 0 ELSE CHOOSE i \in dots : \A j \in dots : j <= i
    IN  toLowerCase(SubSeq(name, last + 1, Len(name)))

Accepted(f) == ExtensionOf(f.name) \in AllowedExtensions /\ f.size <= SizeLimit

Queued(f) == \E j \in DOMAIN uploadedFiles : uploadedFiles[j] = f

ToastsAbout(ts, f) == SelectSeq(ts, LAMBDA t : t.ident = f.id)

ErrorTitles == {"Invalid File Type", "File Too Large"}

\* C1: a file of the last batch is in the queue iff its extension is allowed
\* and its size is at most 10,485,760 bytes; a file with a disallowed
\* extension got the one toast 'Invalid File Type' whatever its size, a file
\* with an allowed extension that is too large the one toast 'File Too
\* Large', an accepted file none.
C1_ValidationDecides ==
    lastOp.op = "upload" =>
        \A i \in DOMAIN lastOp.files :
            LET f == lastOp.files[i]
                okExt == ExtensionOf(f.name) \in AllowedExtensions
                okSize == f.size <= SizeLimit
                about == ToastsAbout(toasts, f)
            IN  /\ Queued(f) <=> (okExt /\ okSize)
                /\ (okExt /\ okSize) => about = <<>>
                /\ ~okExt => about = <<Toast("Invalid File Type", f.name, f.id, 0)>>
                /\ (okExt /\ ~okSize) => about = <<Toast("File Too Large", f.name, f.id, 0)>>

\* a batch of "A.PDF" of exactly 10,485,760 bytes, accepted, and a too large
\* file with a disallowed extension, rejected as 'Invalid File Type'
C1_Witness ==
    /\ lastOp.op = "upload" /\ Len(lastOp.files) = 2
    /\ lastOp.files[1].name = <<"A",".","P","D","F">>
    /\ lastOp.files[1].size = SizeLimit
    /\ uploadedFiles = <<lastOp.files[1]>>
    /\ ~(ExtensionOf(lastOp.files[2].name) \in AllowedExtensions)
    /\ lastOp.files[2].size > SizeLimit
    /\ toasts[1].title = "Invalid File Type"

\* C2: every file of the last batch whose format is one of PDF, DOCX, TXT,
\* RTF, ODT, HTML and whose size is at most 10 MB is in the queue.
C2_DocumentedFormatsAccepted ==
    lastOp.op = "upload" =>
        \A i \in DOMAIN lastOp.files :
            (/\ ExtensionOf(lastOp.files[i].name) \in DocumentedFormats
             /\ lastOp.files[i].size <= SizeLimit) => Queued(lastOp.files[i])

\* C3: an upload leaves the previous queue followed by exactly the accepted
\* files of the batch in batch order, and emits one error toast per rejected
\* file, in batch order, each naming its file.
C3_BatchIndependent ==
    [][(lastOp' # lastOp /\ lastOp'.op = "upload") =>
        LET files == lastOp'.files
            accepted == SelectSeq(files, Accepted)
            rejected == SelectSeq(files, LAMBDA f : ~Accepted(f))
            errors == SelectSeq(toasts', LAMBDA t : t.title \in ErrorTitles)
        IN  /\ uploadedFiles' = uploadedFiles \o accepted
            /\ Len(errors) = Len(rejected)
            /\ \A k \in DOMAIN errors :
                  errors[k].ident = rejected[k].id /\ errors[k].name = rejected[k].name]_vars

\* a batch whose first file was rejected and whose second file was queued
C3_Witness ==
    /\ lastOp.op = "upload" /\ Len(lastOp.files) = 2
    /\ ~Accepted(lastOp.files[1])
    /\ uploadedFiles = <<lastOp.files[2]>>
    /\ Len(toasts) = 2 /\ toasts[1].title \in ErrorTitles /\ toasts[2].title = "Files Added"

\* C4: the queue is in insertion order: File objects are created in the order
\* they are offered, and of two queued files the one created first comes
\* first.
C4_InsertionOrder ==
    \A i, j \in DOMAIN uploadedFiles :
        i < j => uploadedFiles[i].id < uploadedFiles[j].id

\* the first of three queued files was removed and the two others remain
C4_Witness ==
    /\ lastOp = Op("remove", 0, <<>>)
    /\ Len(uploadedFiles) = 2
    /\ uploadedFiles[1].id = 2 /\ uploadedFiles[2].id = 3

\* C5: a removal request that addresses no queued item, and the repetition of
\* the removal request just issued, leave the queue unchanged; any other
\* removal request removes the addressed item and nothing else.
C5_RemoveByIdentity ==
    [][lastOp'.op = "remove" =>
        LET index == lastOp'.index
            addressed == index \in 0..(Len(uploadedFiles) - 1)
            repeated == lastOp = lastOp'
        IN  IF repeated \/ ~addressed
            THEN uploadedFiles' = uploadedFiles
            ELSE uploadedFiles' = SelectSeq(uploadedFiles,
                                      LAMBDA f : f # uploadedFiles[index + 1])]_vars

\* C6: a simulation run with a staggered start (index >= 1) begins only for a
\* file that is still in the queue: a file removed after processAll and
\* before its start time never starts.
C6_RemovedNeverStarts ==
    [][(started' # started /\ Head(timers).waited > 0) =>
        \E i \in DOMAIN uploadedFiles : uploadedFiles[i].id = Head(timers).file.id]_vars

\* C7: every run began index * 1000 ms after its processAll, for the file the
\* command found at that index, and every file ahead of it in the queue of
\* that command has begun too.
C7_StaggeredStarts ==
    \A r \in BagToSet(started) :
        /\ r.waited * 100 = r.pos * 1000
        /\ [id |-> r.id, cmd |-> r.cmd, pos |-> r.pos] \in commanded
        /\ CopiesIn(r, started) = 1
        /\ \A q \in 0..(r.pos - 1) :
              \E r2 \in BagToSet(started) : r2.cmd = r.cmd /\ r2.pos = q

\* the second file of a command has begun
C7_Witness == \E r \in BagToSet(started) : r.pos = 1

\* C8: the progress of a run is always in [0, 100], a run that completed
\* ended at exactly 100, and a tick never lowers the progress of its run.
C8_ProgressMonotone ==
    /\ [](/\ \A k \in DOMAIN timers :
               timers[k].kind = "tick" => timers[k].progress \in 0..(100 * Scale)
          /\ \A c \in BagToSet(completed) : c.progress = 100 * Scale
          /\ display.width \in 0..(100 * Scale))
    /\ [][(Due /\ Head(timers).kind = "tick" /\ timers' # timers) =>
            LET t == Head(timers)
                live == {k \in DOMAIN timers' :
                            /\ timers'[k].kind = "tick"
                            /\ timers'[k].file.id = t.file.id
                            /\ timers'[k].cmd = t.cmd}
            IN  \/ live # {} /\ \A k \in live : timers'[k].progress >= t.progress
                \/ /\ live = {}
                   /\ LET c == [id |-> t.file.id, cmd |-> t.cmd, progress |-> 100 * Scale]
                      IN  CopiesIn(c, completed') = CopiesIn(c, completed) + 1]_vars

\* a run completed by a tick that would have passed 100
C8_Witness ==
    /\ completed # EmptyBag
    /\ display.width = 100 * Scale
    /\ display.status = "Completed"

RunKeys == (1..MaxRunFiles) \X (1..MaxRuns)

RunActive(id, cmd) ==
    \E k \in DOMAIN timers :
        timers[k].kind = "tick" /\ timers[k].file.id = id /\ timers[k].cmd = cmd

RunCompleted(id, cmd) ==
    CopiesIn([id |-> id, cmd |-> cmd, progress |-> 100 * Scale], completed) > 0

Completions(id) ==
    LET runs == {c \in BagToSet(completed) : c.id = id}
        RECURSIVE Sum(_)
        Sum(S) == IF S = {} THEN 0
                  ELSE LET c == CHOOSE x \in S : TRUE
                       IN  CopiesIn(c, completed) + Sum(S \ {c})
    IN  Sum(runs)

ItemCompleted(id) == \E c \in BagToSet(completed) : c.id = id

ItemStarted(id) == \E r \in BagToSet(started) : r.id = id

\* a timer callback is running in this step
TimerFires == Due /\ timers' # timers /\ cmds' = cmds

\* C11: an item completes at most once: it gets at most one 'Processing
\* Complete' toast, emitted by the tick that brings its progress to 100,
\* and that toast names the item.
C11_CompletesExactlyOnce ==
    /\ \A id \in 1..MaxRunFiles : Completions(id) <= 1
    /\ \A k \in DOMAIN toasts :
          toasts[k].title = "Processing Complete" =>
              /\ toasts = <<toasts[k]>>
              /\ toasts[k].name # <<>>
              /\ ItemCompleted(toasts[k].ident)

\* C12: once an item has completed, no start or tick callback runs for it
\* again, whatever commands follow.
C12_CompletedIsFinal ==
    [][(TimerFires /\ Head(timers).kind \in {"start", "tick"}) =>
            ~ItemCompleted(Head(timers).file.id)]_vars

\* C13: a file in the upload queue has not been handed to the simulator: no
\* run has started for it.
C13_QueueHoldsUnprocessed ==
    \A i \in DOMAIN uploadedFiles : ~ItemStarted(uploadedFiles[i].id)

QueueTitles == {"Files Added", "File Removed", "Queue Cleared"}

\* C14: a command that changes the queue emits exactly one toast describing
\* the change: an upload one 'Files Added' carrying the number of files
\* appended, a removal one 'File Removed', a clear one 'Queue Cleared'.
C14_OneToastPerMutation ==
    [][uploadedFiles' # uploadedFiles =>
        LET about == SelectSeq(toasts', LAMBDA t : t.title \in QueueTitles)
            grown == Len(uploadedFiles') - Len(uploadedFiles)
        IN  /\ Len(about) = 1
            /\ lastOp'.op = "upload" =>
                  /\ grown >= 1
                  /\ about[1] = Toast("Files Added", <<>>, 0, grown)
            /\ lastOp'.op = "remove" => grown = -1 /\ about[1].title = "File Removed"
            /\ lastOp'.op = "clear" =>
                  uploadedFiles' = <<>> /\ about[1].title = "Queue Cleared"]_vars

\* a batch of one accepted and one rejected file was appended to a queue that
\* held a file: 'Files Added' carries 1
C14_Witness ==
    /\ lastOp.op = "upload" /\ Len(lastOp.files) = 2
    /\ Len(uploadedFiles) = 2
    /\ Len(toasts) = 2
    /\ toasts[2] = Toast("Files Added", <<>>, 0, 1)

StageNames == <<"Extracting text...", "Analyzing structure...", "Extracting entities...",
                "Processing skills...", "Finalizing results...">>

\* floor(progress / 100 * 5), at most 4; progress in model units
StageIndex(progress) ==
    LET raw == (5 * progress) \div (100 * Scale) IN IF raw > 4 THEN 4 ELSE raw

StageIndexOf(label) == (CHOOSE k \in DOMAIN StageNames : StageNames[k] = label) - 1

\* ceil(a / b) for b > 0
CeilDiv(a, b) == IF a % b = 0 THEN a \div b ELSE (a \div b) + 1

\* the progress text shows a stage and an ETA
ShowsStage == "step" \in DOMAIN display.details

C16_EtaEstimate ==
    /\ [](ShowsStage =>
            /\ display.details.eta = CeilDiv(100 * Scale - display.width, 10 * Scale)
            /\ display.details.eta \in 1..10)
    /\ [][(TimerFires /\ Head(timers).kind = "tick" /\ "eta" \in DOMAIN display'.details) =>
            /\ display'.details.eta <= CeilDiv(100 * Scale - Head(timers).progress, 10 * Scale)
            /\ display'.details.eta >= 0]_vars

\* an ETA of 2 s is shown for a run whose tick has just brought it to
\* progress 87
C16_Witness ==
    /\ ShowsStage
    /\ display.details.eta = 2
    /\ \E k \in DOMAIN timers :
          /\ timers[k].kind = "tick" /\ timers[k].progress = display.width
          /\ timers[k].waited = 0
    /\ display.width = 87 * Scale

(***************************************************************************)
(* Vocabulary of the export properties: the flattening of a record, CSV    *)
(* quoting and a JSON parser.                                              *)
(***************************************************************************)
RECURSIVE DotJoin(_)
DotJoin(chain) ==
    IF Len(chain) = 1 THEN chain[1]
    ELSE DotJoin(SubSeq(chain, 1, Len(chain) - 1)) \o <<".">> \o chain[Len(chain)]

RECURSIVE JoinedBy(_, _)
JoinedBy(strings, sep) ==
    IF strings = <<>> THEN <<>>
    ELSE IF Len(strings) = 1 THEN strings[1]
    ELSE strings[1] \o sep \o JoinedBy(Tail(strings), sep)

\* the FlatFields of the entries of a mapping reached by the chain of keys:
\* depth first, in the order of the entries; a sequence gives one field
RECURSIVE FlatFields(_, _)
FlatFields(entries, chain) ==
    IF entries = <<>> THEN <<>>
    ELSE LET e == Head(entries)
             here == Append(chain, e.key)
             own == IF e.value.type = "object" THEN FlatFields(e.value.value, here)
                    ELSE IF e.value.type = "array"
                    THEN <<[path |-> DotJoin(here), sequence |-> TRUE,
                            value |-> JoinedBy([i \in DOMAIN e.value.value |->
                                                   String(e.value.value[i])], <<";", " ">>)]>>
                    ELSE <<[path |-> DotJoin(here), sequence |-> FALSE,
                            value |-> String(e.value)]>>
         IN  own \o FlatFields(Tail(entries), chain)

RECURSIVE Doubled(_)
Doubled(s) ==
    IF s = <<>> THEN <<>>
    ELSE IF Head(s) = "\"" THEN <<"\"", "\"">> \o Doubled(Tail(s))
    ELSE <<Head(s)>> \o Doubled(Tail(s))

CharAt(t, i) == IF i \in 1..Len(t) THEN t[i] ELSE "EOF"

Result(ok, v, next) == [ok |-> ok, value |-> v, next |-> next]

\* one quoted CSV field starting at t[i]; a doubled quote stands for a quote
RECURSIVE QuotedFrom(_, _, _)
QuotedFrom(t, i, acc) ==
    LET c == CharAt(t, i)
    IN  IF c = "EOF" THEN Result(FALSE, <<>>, i)
        ELSE IF c = "\"" /\ CharAt(t, i + 1) = "\"" THEN QuotedFrom(t, i + 2, Append(acc, c))
        ELSE IF c = "\"" THEN Result(TRUE, acc, i + 1)
        ELSE QuotedFrom(t, i + 1, Append(acc, c))

QuotedField(t, i) ==
    IF CharAt(t, i) = "\"" THEN QuotedFrom(t, i + 1, <<>>) ELSE Result(FALSE, <<>>, i)

\* a row of two quoted fields under standard CSV quoting, <<>> if it is none
ParseCSVRow(row) ==
    LET f1 == QuotedField(row, 1)
        f2 == QuotedField(row, f1.next + 1)
    IN  IF f1.ok /\ CharAt(row, f1.next) = "," /\ f2.ok /\ f2.next = Len(row) + 1
        THEN <<f1.value, f2.value>>
        ELSE <<>>

ExportedAs(name) == download.filename = Str(name)

\* the lines of a text: the segments between its newlines
LinesOf(t) ==
    LET starts == {1} \cup {i + 1 : i \in {j \in DOMAIN t : t[j] = "\n"}}
        start(k) == CHOOSE i \in starts : Cardinality({j \in starts : j < i}) = k - 1
        end(k) == IF k = Cardinality(starts) THEN Len(t) ELSE start(k + 1) - 2
    IN  [k \in 1..Cardinality(starts) |-> SubSeq(t, start(k), end(k))]

CsvRows == LinesOf(download.content.value)

EndsWith(s, tail) ==
    Len(s) >= Len(tail) /\ SubSeq(s, Len(s) - Len(tail) + 1, Len(s)) = tail

\* C17: the CSV text is the row 'Field,Value' followed by one row per
\* non-mapping entry, depth first in the order of the entries, rows
\* separated by one newline with none after the last; the Field of a row is
\* the chain of keys from the root joined by dots.
C17_CsvFlattening ==
    ExportedAs(resume_data_csv) =>
        LET fields == FlatFields(data.value, <<>>)
        IN  CsvRows = <<<<"F","i","e","l","d",",","V","a","l","u","e">>>>
                      \o [k \in DOMAIN fields |->
                            <<"\"">> \o fields[k].path \o <<"\"", ",", "\"">>
                            \o Doubled(fields[k].value) \o <<"\"">>]

\* C18: every data row of the CSV text parses, under standard CSV quoting,
\* to exactly the path and the value of its field.  Stated for records
\* without an empty key, which get the paths C17 is about.
C18_CsvQuoting ==
    (/\ ExportedAs(resume_data_csv)
     /\ \A i \in DOMAIN data.value : data.value[i].key # <<>>) =>
        LET fields == FlatFields(data.value, <<>>)
        IN  /\ Len(CsvRows) = Len(fields) + 1
            /\ \A k \in DOMAIN fields :
                  ParseCSVRow(CsvRows[k + 1]) = <<fields[k].path, fields[k].value>>

\* C19: every sequence-valued entry gives exactly one row, whose value is
\* its elements, each converted to a string, joined by "; ": the CSV text
\* has one row per field of the flattening, and the row of a sequence ends
\* with that value in quotes.
C19_SequencesJoined ==
    ExportedAs(resume_data_csv) =>
        LET fields == FlatFields(data.value, <<>>)
        IN  /\ Len(CsvRows) = Len(fields) + 1
            /\ \A k \in DOMAIN fields :
                  fields[k].sequence =>
                      EndsWith(CsvRows[k + 1],
                               <<",", "\"">> \o Doubled(fields[k].value) \o <<"\"">>)

\* the CSV export of a record with a sequence of a mapping and a boolean
\* and a sequence holding a sequence
C19_Witness ==
    /\ ExportedAs(resume_data_csv)
    /\ \E i, j \in DOMAIN data.value :
          /\ data.value[i].value =
                Arr(<<Obj(<<Entry(<<"s">>, Str(<<"p">>))>>), Bool(TRUE)>>)
          /\ data.value[j].value =
                Arr(<<Arr(<<Num(1), Num(2)>>), Str(<<"z", "\"">>)>>)
    /\ Len(CsvRows) = 3

(***************************************************************************)
(* A JSON parser: the value a text denotes, ParseFailure if it is no JSON  *)
(* text.  The properties of an object are kept in the order of the text.   *)
(***************************************************************************)
ParseFailure == [type |-> "failure", value |-> <<>>]

Failed(t) == Result(FALSE, ParseFailure, Len(t) + 2)

IsDigit(c) == \E d \in 1..10 : DigitChars[d] = c

DigitValue(c) == (CHOOSE d \in 1..10 : DigitChars[d] = c) - 1

StartsAt(t, i, word) ==
    i + Len(word) - 1 <= Len(t) /\ SubSeq(t, i, i + Len(word) - 1) = word

RECURSIVE SkipSpace(_, _)
SkipSpace(t, i) == IF CharAt(t, i) \in {" ", "\n"} THEN SkipSpace(t, i + 1) ELSE i

\* the characters of a string literal, from behind its opening quote
RECURSIVE ParseChars(_, _, _)
ParseChars(t, i, acc) ==
    LET c == CharAt(t, i)
        e == CharAt(t, i + 1)
    IN  IF c = "EOF" \/ c = "\n" THEN Failed(t)
        ELSE IF c = "\"" THEN Result(TRUE, acc, i + 1)
        ELSE IF c = "\\"
             THEN IF e \in {"\"", "\\"} THEN ParseChars(t, i + 2, Append(acc, e))
                  ELSE IF e = "n" THEN ParseChars(t, i + 2, Append(acc, "\n"))
                  ELSE Failed(t)
        ELSE ParseChars(t, i + 1, Append(acc, c))

RECURSIVE ParseDigits(_, _, _)
ParseDigits(t, i, acc) ==
    IF IsDigit(CharAt(t, i)) THEN ParseDigits(t, i + 1, 10 * acc + DigitValue(t[i]))
    ELSE Result(TRUE, acc, i)

ParseNumber(t, i) ==
    LET negative == CharAt(t, i) = "-"
        from == IF negative THEN i + 1 ELSE i
        digits == ParseDigits(t, from, 0)
    IN  IF ~IsDigit(CharAt(t, from)) THEN Failed(t)
        ELSE Result(TRUE, Num(IF negative THEN -digits.value ELSE digits.value), digits.next)

RECURSIVE ParseValue(_, _), ParseElements(_, _, _), ParseMembers(_, _, _)
ParseValue(t, i0) ==
    LET i == SkipSpace(t, i0)
        c == CharAt(t, i)
    IN  CASE c = "\"" -> LET r == ParseChars(t, i + 1, <<>>)
                         IN  IF r.ok THEN Result(TRUE, Str(r.value), r.next) ELSE Failed(t)
          [] c = "["  -> LET j == SkipSpace(t, i + 1)
                         IN  IF CharAt(t, j) = "]" THEN Result(TRUE, Arr(<<>>), j + 1)
                             ELSE ParseElements(t, j, <<>>)
          [] c = "{"  -> LET j == SkipSpace(t, i + 1)
                         IN  IF CharAt(t, j) = "}" THEN Result(TRUE, Obj(<<>>), j + 1)
                             ELSE ParseMembers(t, j, <<>>)
          [] c = "t"  -> IF StartsAt(t, i, <<"t","r","u","e">>)
                         THEN Result(TRUE, Bool(TRUE), i + 4) ELSE Failed(t)
          [] c = "f"  -> IF StartsAt(t, i, <<"f","a","l","s","e">>)
                         THEN Result(TRUE, Bool(FALSE), i + 5) ELSE Failed(t)
          [] OTHER    -> ParseNumber(t, i)

ParseElements(t, i, acc) ==
    LET v == ParseValue(t, i)
        j == SkipSpace(t, v.next)
    IN  IF ~v.ok THEN Failed(t)
        ELSE IF CharAt(t, j) = "," THEN ParseElements(t, j + 1, Append(acc, v.value))
        ELSE IF CharAt(t, j) = "]" THEN Result(TRUE, Arr(Append(acc, v.value)), j + 1)
        ELSE Failed(t)

ParseMembers(t, i0, acc) ==
    LET i == SkipSpace(t, i0)
        k == IF CharAt(t, i) = "\"" THEN ParseChars(t, i + 1, <<>>) ELSE Failed(t)
        colon == SkipSpace(t, k.next)
        v == IF k.ok /\ CharAt(t, colon) = ":" THEN ParseValue(t, colon + 1) ELSE Failed(t)
        j == SkipSpace(t, v.next)
    IN  IF ~v.ok THEN Failed(t)
        ELSE IF CharAt(t, j) = ","
             THEN ParseMembers(t, j + 1, Append(acc, Entry(k.value, v.value)))
        ELSE IF CharAt(t, j) = "}"
             THEN Result(TRUE, Obj(Append(acc, Entry(k.value, v.value))), j + 1)
        ELSE Failed(t)

JSON_parse(t) ==
    LET r == ParseValue(t, 1)
    IN  IF r.ok /\ SkipSpace(t, r.next) = Len(t) + 1 THEN r.value ELSE ParseFailure

\* C20: the text of a JSON export parses to a value equal to the record
\* exported, mappings with the same keys in the same order.
C20_JsonRoundTrip ==
    ExportedAs(resume_data_json) => JSON_parse(download.content.value) = data

\* the JSON export of a record with a key and a string that hold a quote, and
\* with a nested mapping
C20_Witness ==
    /\ ExportedAs(resume_data_json)
    /\ Len(data.value) = 2
    /\ data.value[1] = Entry(<<"k", "\"">>, Str(<<"s", "\"", "\\">>))
    /\ data.value[2].value.type = "object" /\ data.value[2].value.value # <<>>
    /\ JSON_parse(download.content.value) = data

(***************************************************************************)
(* Steps of SpecCore.  A timer step (a callback that fires, or time that   *)
(* passes) changes the pending timers and leaves lastOp and cmds alone;    *)
(* every other step is the command lastOp' records.                        *)
(***************************************************************************)
TimerStepTaken == timers' # timers /\ cmds' = cmds /\ lastOp' = lastOp

CommandTaken(op) == ~TimerStepTaken /\ lastOp'.op = op

\* a queue without the item a removal request addresses: index counts from
\* 0, a negative index from the end; an index that addresses no item removes
\* nothing
Without(queue, index) ==
    LET k == IF index < 0 THEN Len(queue) + index + 1 ELSE index + 1
    IN  IF k \in DOMAIN queue
        THEN [i \in 1..(Len(queue) - 1) |-> IF i < k THEN queue[i] ELSE queue[i + 1]]
        ELSE queue

StartTimersOf(cmd) ==
    {i \in DOMAIN timers : timers[i].kind = "start" /\ timers[i].cmd = cmd}

TickTimersOf(ts, id, cmd) ==
    {i \in DOMAIN ts : ts[i].kind = "tick" /\ ts[i].file.id = id /\ ts[i].cmd = cmd}

\* C21: without #toastContainer nothing is shown and no operation fails: the
\* queue after an ingest, a removal, a clear or a processAll, the timers a
\* processAll schedules, and the progress and completion a tick produces are
\* the same function of the state before and of the operation's arguments,
\* whether the container exists or not.
C21_DegradesSilently ==
    [][/\ ~toastContainer => toasts' = <<>>
       /\ CommandTaken("upload") =>
            /\ uploadedFiles' = uploadedFiles \o SelectSeq(lastOp'.files, Accepted)
            /\ timers' = timers
       /\ CommandTaken("remove") =>
            /\ uploadedFiles' = Without(uploadedFiles, lastOp'.index)
            /\ timers' = timers
       /\ CommandTaken("clear") => uploadedFiles' = <<>> /\ timers' = timers
       /\ CommandTaken("processAll") =>
            /\ uploadedFiles' = uploadedFiles
            /\ uploadedFiles = <<>> => timers' = timers
            /\ uploadedFiles # <<>> =>
                 /\ cmds' = cmds + 1
                 /\ \A i \in DOMAIN uploadedFiles :
                       \E j \in DOMAIN timers' :
                          /\ timers'[j].kind = "start"
                          /\ timers'[j].file = uploadedFiles[i]
                          /\ timers'[j].cmd = cmds'
                          /\ timers'[j].pos = i - 1
       /\ (TimerStepTaken /\ Due /\ Head(timers).kind = "tick") =>
            LET t == Head(timers)
                left == TickTimersOf(timers', t.file.id, t.cmd)
            IN  /\ uploadedFiles' = uploadedFiles
                /\ \/ /\ left = {}
                      /\ \E inc \in Increments : t.progress + inc >= Full
                      /\ completed' = completed (+) SetToBag({[id |-> t.file.id,
                                                                cmd |-> t.cmd,
                                                                progress |-> Full]})
                      /\ display'.status = "Completed" /\ display'.width = Full
                   \/ /\ Cardinality(left) = 1
                      /\ \E inc \in Increments :
                            /\ t.progress + inc < Full
                            /\ \A j \in left : timers'[j].progress = t.progress + inc
                      /\ completed' = completed]_vars

\* no container: a batch with a rejected candidate was ingested, the accepted
\* file is queued, and a run has completed without a toast
C21_Witness ==
    /\ ~toastContainer
    /\ uploadedFiles # <<>>
    /\ nextId > Len(uploadedFiles) + 1
    /\ completed # EmptyBag
    /\ toasts = <<>>

Persisted(key) == IF key \in DOMAIN localStorage THEN <<localStorage[key]>> ELSE <<>>

C23_OnlyValidatedQueued ==
    /\ [](\A i \in DOMAIN uploadedFiles :
             /\ ExtensionOf(uploadedFiles[i].name) \in AllowedExtensions
             /\ uploadedFiles[i].size <= SizeLimit)
    /\ [][CommandTaken("upload") =>
             \A k \in DOMAIN lastOp'.files :
                ~Accepted(lastOp'.files[k]) =>
                    \A j \in DOMAIN uploadedFiles' :
                       uploadedFiles'[j].id # lastOp'.files[k].id]_vars

\* a batch of an oversized file and a valid one was ingested: the valid one
\* is queued, the oversized one is not
C23_Witness ==
    /\ lastOp.op = "upload"
    /\ \E k \in DOMAIN lastOp.files :
          /\ lastOp.files[k].size > SizeLimit
          /\ ExtensionOf(lastOp.files[k].name) \in AllowedExtensions
          /\ ~Queued(lastOp.files[k])
    /\ \E k \in DOMAIN lastOp.files : Queued(lastOp.files[k])

\* C24: while the runs of one processAll over two or more files are ticking,
\* the width of the shared progress bar never goes down: a tick of a run that
\* has already shown progress leaves the bar at least as wide as it was.
C24_DisplayMonotone ==
    [][(/\ cmds = 1 /\ Cardinality(commanded) >= 2
        /\ TimerFires /\ Head(timers).kind = "tick"
        /\ Head(timers).progress > 0)
       => display'.width >= display.width]_vars

Ticking == {i \in DOMAIN timers : timers[i].kind = "tick"}

\* C25: when the shared display reads 'Completed' no run is still ticking,
\* and while some run is ticking the display reads 'Processing' and shows the
\* name of a file whose run is still ticking.
C25_DisplayConsistent ==
    /\ display.status = "Completed" => Ticking = {}
    /\ Ticking # {} =>
          /\ display.status = "Processing"
          /\ \E i \in Ticking : timers[i].file.name = display.fileName

StartsPending(c) ==
    Cardinality({j \in DOMAIN timers :
                    /\ timers[j].kind = "start"
                    /\ timers[j].file.id = c.id
                    /\ timers[j].cmd = c.cmd
                    /\ timers[j].pos = c.pos})

StartsDone(c) ==
    Cardinality({r \in DOMAIN started : r.id = c.id /\ r.cmd = c.cmd /\ r.pos = c.pos})

C27_RunsOverlap ==
    /\ [](/\ \A inc \in Increments : 6 * inc < Full
          /\ 7 * TickPeriod > Stagger)
    /\ [][(TimerFires /\ Head(timers).kind = "start" /\ Head(timers).pos >= 1) =>
            /\ \E j \in Ticking :
                  /\ timers[j].cmd = Head(timers).cmd
                  /\ timers[j].pos = Head(timers).pos - 1
                  /\ timers[j].progress < Full
            /\ \E j, k \in DOMAIN timers' :
                  /\ timers'[j].kind = "tick" /\ timers'[k].kind = "tick"
                  /\ timers'[j].cmd = Head(timers).cmd /\ timers'[k].cmd = Head(timers).cmd
                  /\ timers'[j].pos = Head(timers).pos - 1
                  /\ timers'[k].pos = Head(timers).pos]_vars

\* the second run of a processAll has just started (it has not waited a tick)
\* while the first run, past half of its progress, is still ticking
C27_Witness ==
    /\ cmds = 1
    /\ \E j, k \in Ticking :
          /\ timers[j].pos = 0 /\ timers[j].progress > Full \div 2
          /\ timers[k].pos = 1 /\ timers[k].progress = 0 /\ timers[k].waited = 0

\* C28: a processAll that finds the queue empty shows exactly the one toast
\* 'No Files' (on a page with the toast container), schedules no timer, and
\* leaves the queue, the section shown and the count of accepted commands as
\* they were.
C28_EmptyProcessAllRejected ==
    [][(CommandTaken("processAll") /\ uploadedFiles = <<>>) =>
          /\ toastContainer => toasts' = <<Toast("No Files", <<>>, 0, 0)>>
          /\ timers' = timers
          /\ uploadedFiles' = <<>>
          /\ queueList' = queueList
          /\ currentSection' = currentSection
          /\ cmds' = cmds /\ commanded' = commanded /\ started' = started]_vars

\* processAll was the last command, on a queue emptied after an upload: the
\* 'No Files' toast is shown, nothing is scheduled, the home section is shown
C28_Witness ==
    /\ lastOp = Op("processAll", 0, <<>>)
    /\ nextId > 1
    /\ toasts = <<Toast("No Files", <<>>, 0, 0)>>
    /\ timers = <<>>
    /\ cmds = 0
    /\ currentSection = "home"

\* C29: a removal whose index addresses no item of the queue, and a clear of
\* an empty queue, leave the queue as it was and show neither 'File Removed'
\* nor 'Queue Cleared'.
C29_NoChangeNoToast ==
    [][(\/ lastOp'.op = "remove" /\ lastOp'.index + 1 \notin DOMAIN uploadedFiles
        \/ lastOp'.op = "clear" /\ uploadedFiles = <<>>)
       => /\ uploadedFiles' = uploadedFiles
          /\ \A k \in DOMAIN toasts' :
                toasts'[k].title \notin {"File Removed", "Queue Cleared"}]_vars

\* C30: a download is offered and 'Export Complete' is shown only for content
\* serialized as JSON or CSV: whenever a link was clicked or the toast is
\* shown, the content is a text and the file is resume_data.json or
\* resume_data.csv; an export in another format, such as xml, does neither.
C30_UnknownFormatRejected ==
    (\/ download.clicked
     \/ \E k \in DOMAIN toasts : toasts[k].title = "Export Complete")
    => /\ download.content.type = "string"
       /\ ExportedAs(resume_data_json) \/ ExportedAs(resume_data_csv)

====
